---- MODULE Spec2Model ----
(***************************************************************************)
(* melkit.ptf: the PTF plot-file reader.                                   *)
(*                                                                         *)
(* A file is a sequence of bytes.  PTF.__init__ scans it once with         *)
(* _inspect_ptf; every extraction (to_dataframe, MCRBin) scans it again    *)
(* and then reads the requested samples of every data block.  The model    *)
(* takes one scan-loop iteration (one record) per step.                    *)
(*                                                                         *)
(* Text is a sequence of character codes.  A 32-bit float is the record    *)
(* of its sign, exponent and mantissa fields.  U32 is exact below 2^31:    *)
(* every word the files of this model present as an integer has a top      *)
(* byte below 128.                                                         *)
(***************************************************************************)
EXTENDS Integers, Sequences, FiniteSets, TLC

VARIABLES
    file,       \* the bytes at self.path
    inp,        \* how the file was built (never read by the program)
    pc,         \* "inspect" | "failed" | "idle" | "mcrbin"
    sc,         \* the locals of the running (or last) scan
    openErr,    \* the exception PTF(path) raised, "" if none
    title,      \* self._title
    columns,    \* self._columns
    call,       \* vars_to_search of the MCRBin call in progress
    last,       \* outcome of the most recent extraction call
    prev        \* outcome of some earlier extraction call (history)

vars == <<file, inp, pc, sc, openErr, title, columns, call, last, prev>>

----------------------------------------------------------------------------
(* Bounds of the model *)

\* data blocks (timesteps) per file: 0..MaxSteps
MaxSteps == 2
\* requested names per extraction call: 0..MaxReqLen
MaxReqLen == 2

----------------------------------------------------------------------------
(* Bytes, integers, floats, text *)

Min(a, b) == IF a < b THEN a ELSE b
Max(a, b) == IF a < b THEN b ELSE a

RECURSIVE Concat(_)
Concat(ss) == IF ss = <<>> THEN <<>> ELSE Head(ss) \o Concat(Tail(ss))

RECURSIVE Sum(_)
Sum(s) == IF s = <<>> THEN 0 ELSE Head(s) + Sum(Tail(s))

RECURSIVE Pow2(_)
Pow2(n) == IF n = 0 THEN 1 ELSE 2 * Pow2(n - 1)

\* struct.pack('I', n), little-endian
U32LE(n) ==
    << n % 256, (n \div 256) % 256, (n \div 65536) % 256, (n \div 16777216) % 256 >>

\* struct.unpack('I', b)[0] of 4 bytes
U32(b) == b[1] + 256 * b[2] + 65536 * b[3] + 16777216 * b[4]

\* struct.unpack('f', b)[0] of 4 bytes: the IEEE-754 single it denotes
F32(b) ==
    [ sign |-> b[4] \div 128,
      exp  |-> (b[4] % 128) * 2 + b[3] \div 128,
      man  |-> (b[3] % 128) * 65536 + b[2] * 256 + b[1] ]

\* the float whose value is the integer n, 1 <= n < 32
FloatOf(n) ==
    LET e == IF n < 2 THEN 0 ELSE IF n < 4 THEN 1 ELSE IF n < 8 THEN 2
             ELSE IF n < 16 THEN 3 ELSE 4
    IN  [ sign |-> 0, exp |-> 127 + e, man |-> (n - Pow2(e)) * Pow2(23 - e) ]

\* struct.pack('f', x)
F32LE(x) ==
    << x.man % 256, (x.man \div 256) % 256,
       (x.exp % 2) * 128 + (x.man \div 65536), x.sign * 128 + x.exp \div 2 >>

\* the printable ASCII characters, code 32 first (three of them by name)
Alphabet ==
    << " ", "!", "dquote", "#", "$", "%", "&", "'", "(", ")", "*", "+", ",", "-",
       ".", "/", "0", "1", "2", "3", "4", "5", "6", "7", "8", "9", ":", ";",
       "<", "=", ">", "?", "@", "A", "B", "C", "D", "E", "F", "G", "H", "I",
       "J", "K", "L", "M", "N", "O", "P", "Q", "R", "S", "T", "U", "V", "W",
       "X", "Y", "Z", "[", "bslash", "]", "^", "_", "bquote", "a", "b", "c", "d", "e",
       "f", "g", "h", "i", "j", "k", "l", "m", "n", "o", "p", "q", "r", "s",
       "t", "u", "v", "w", "x", "y", "z", "{", "|", "}", "~" >>

Code(c) == 31 + CHOOSE i \in 1..Len(Alphabet) : Alphabet[i] = c

\* a string literal, written as its characters
Str(cs) == [i \in 1..Len(cs) |-> Code(cs[i])]

\* str(b, 'utf-8'): bytes 0x80..0xBF are continuation bytes and decode only
\* after a lead byte 0xC2..0xF4; the files of this model hold no lead byte
Utf8Ok(b) == \A i \in 1..Len(b) : b[i] < 128

\* the characters str.strip() removes
IsSpace(c) == c \in (9..13) \cup (28..32)

RECURSIVE LStrip(_)
LStrip(s) == IF s # <<>> /\ IsSpace(Head(s)) THEN LStrip(Tail(s)) ELSE s

RECURSIVE RStrip(_)
RStrip(s) ==
    IF s # <<>> /\ IsSpace(s[Len(s)]) THEN RStrip(SubSeq(s, 1, Len(s) - 1)) ELSE s

\* str.strip()
Strip(s) == RStrip(LStrip(s))

RECURSIVE Digits(_)
Digits(n) == IF n < 10 THEN <<48 + n>> ELSE Digits(n \div 10) \o <<48 + (n % 10)>>

\* '_%d' % element
ItemSuffix(element) == <<95>> \o Digits(element)

----------------------------------------------------------------------------
(* The file format, as the scan reads it, and the files of the model *)

TITL == Str(<<"T", "I", "T", "L">>)
KEY  == Str(<<"K", "E", "Y", " ">>)
TR   == Str(<<".", "T", "R", "/">>)
SP   == Str(<<".", "S", "P", "/">>)

\* the four names the catalog always begins with
FixedNames ==
    << Str(<<"T", "I", "M", "E">>), Str(<<"C", "P", "U">>), Str(<<"D", "T">>),
       Str(<<"U", "N", "K", "N", "0", "3">>) >>

\* and their units
FixedUnits == << Str(<<"s", "e", "c">>), <<>>, <<>>, <<>> >>

\* a record: length prefix, payload, length trailer
Rec(payload) == U32LE(Len(payload)) \o payload \o U32LE(Len(payload))

\* text padded with blanks to a fixed width
Pad(s, w) == s \o [i \in 1..(w - Len(s)) |-> 32]

\* "TITL" and the title record
TitleGroup(t) == Rec(TITL) \o Rec(t)

\* "KEY " and its five records
KeyGroup(k) ==
    Rec(KEY)
    \o Rec(U32LE(Len(k.names)) \o U32LE(Len(k.items)))
    \o Rec(Concat([i \in 1..Len(k.names) |-> Pad(k.names[i], k.width)]))
    \o Rec(Concat([i \in 1..Len(k.pos) |-> U32LE(k.pos[i])]))
    \o Rec(Concat([i \in 1..Len(k.units) |-> Pad(k.units[i], 16)]))
    \o Rec(Concat([i \in 1..Len(k.items) |-> U32LE(k.items[i])]))

\* the value stored for timestep s (from 1) at catalog index i (from 0)
Sample(s, i) == FloatOf(IF i < 4 THEN 16 + 4 * (s - 1) + i ELSE 3 * (s - 1) + (i - 3))

\* ".TR/" and the data block of timestep s: n floats
DataGroup(s, n) == Rec(TR) \o Rec(Concat([j \in 1..n |-> F32LE(Sample(s, j - 1))]))

FOO == Str(<<"F", "O", "O">>)
BAR == Str(<<"B", "A", "R">>)
UnitK == Str(<<"K">>)
UnitM == Str(<<"m">>)
RunTitle == Str(<<" ", "R", "U", "N", " ", "7", " ", " ">>)

\* the KEY groups of the model's files
Keys ==
    [ round |-> [names |-> <<FOO>>, width |-> 8, pos |-> <<1>>,
                 units |-> <<UnitK>>, items |-> <<1, 2, 3>>],
      two   |-> [names |-> <<FOO, BAR>>, width |-> 4, pos |-> <<1, 3>>,
                 units |-> <<UnitK, UnitM>>, items |-> <<1, 2, 0>>],
      dup   |-> [names |-> <<FOO, FOO>>, width |-> 4, pos |-> <<1, 2>>,
                 units |-> <<UnitK, UnitM>>, items |-> <<3, 1, 2>>],
      mis   |-> [names |-> <<FOO, BAR>>, width |-> 4, pos |-> <<2, 3>>,
                 units |-> <<UnitK, UnitM>>, items |-> <<1, 2, 0>>],
      one   |-> [names |-> <<FOO, BAR>>, width |-> 4, pos |-> <<1, 2>>,
                 units |-> <<UnitK, UnitM>>, items |-> <<0>>],
      alt   |-> [names |-> <<BAR, FOO>>, width |-> 4, pos |-> <<1, 2>>,
                 units |-> <<UnitM, UnitK>>, items |-> <<0, 2, 1>>] ]

\* the payload of the record after the ".SP/" tag
SpecialPayload == U32LE(7) \o U32LE(9)

\* such a payload whose second and third words read as the record of a
\* ".TR/" tag, and whose last word reads as a length prefix of 0
ShadowPayload == U32LE(1) \o U32LE(4) \o TR \o U32LE(1) \o U32LE(0)

\* s data blocks of n floats each
DataGroups(s, n) == Concat([i \in 1..s |-> DataGroup(i, n)])

\* the whole file of a layout
Whole(layout, key, steps) ==
    LET n == 4 + Len(Keys[key].items)
    IN  CASE layout = "empty"   -> <<>>
          [] layout = "plain"   ->
                TitleGroup(RunTitle) \o KeyGroup(Keys[key]) \o DataGroups(steps, n)
          [] layout = "twokey"  ->
                TitleGroup(RunTitle) \o KeyGroup(Keys[key]) \o KeyGroup(Keys.alt)
                \o DataGroups(steps, 4 + Len(Keys.alt.items))
          [] layout = "special" ->
                TitleGroup(RunTitle) \o KeyGroup(Keys[key]) \o Rec(SP)
                \o Rec(SpecialPayload) \o DataGroups(steps, n)
          [] layout = "shadow"  ->
                TitleGroup(RunTitle) \o KeyGroup(Keys[key]) \o Rec(SP)
                \o Rec(ShadowPayload) \o DataGroups(steps, n)
          [] layout = "lead"    ->
                Rec(SpecialPayload) \o TitleGroup(RunTitle) \o KeyGroup(Keys[key])
                \o DataGroups(steps, n)
          [] layout = "short"   ->
                \* every data block lacks its last two floats
                TitleGroup(RunTitle) \o KeyGroup(Keys[key])
                \o DataGroups(steps, n - 2)

\* the files opened whole
WholeInputs ==
    { [layout |-> "empty", key |-> "two", steps |-> 0, cut |-> 0, hist |-> FALSE] }
    \cup { [layout |-> "plain", key |-> k, steps |-> s,
            cut |-> Len(Whole("plain", k, s)),
            hist |-> (s = MaxSteps /\ k \in {"two", "dup"})] :
           k \in {"round", "two", "dup", "mis", "one"}, s \in 0..MaxSteps }
    \cup { [layout |-> l, key |-> "two", steps |-> s,
            cut |-> Len(Whole(l, "two", s)),
            hist |-> (s = MaxSteps /\ l = "twokey")] :
           l \in {"twokey", "special", "shadow", "short"}, s \in 0..MaxSteps }
    \cup { [layout |-> "lead", key |-> "two", steps |-> 0,
            cut |-> Len(Whole("lead", "two", 0)), hist |-> FALSE] }
    \cup { [layout |-> "twokey", key |-> "mis", steps |-> s,
            cut |-> Len(Whole("twokey", "mis", s)), hist |-> FALSE] :
           s \in 0..MaxSteps }

\* the files cut short: the first c bytes of a whole file
CutInputs ==
    UNION { { [layout |-> l, key |-> "two", steps |-> s, cut |-> c, hist |-> FALSE] :
              c \in 0..(Len(Whole(l, "two", s)) - 1) } :
            l \in {"plain", "special"}, s \in 0..MaxSteps }

Inputs == WholeInputs \cup CutInputs

FileOf(i) == SubSeq(Whole(i.layout, i.key, i.steps), 1, i.cut)

\* the offsets at which a record of a well-framed byte sequence begins or ends
RECURSIVE Boundaries(_, _)
Boundaries(f, at) ==
    IF at + 4 > Len(f) THEN {at}
    ELSE {at} \cup Boundaries(f, at + 8 + U32(SubSeq(f, at + 1, at + 4)))

----------------------------------------------------------------------------
(* Python lists *)

\* list.index(x): the position (from 0) of the first x
IndexOf(list, x) == (CHOOSE i \in 1..Len(list) : list[i] = x /\ \A j \in 1..(i - 1) : list[j] # x) - 1

Contains(list, x) == \E i \in 1..Len(list) : list[i] = x

\* list[a:b]
PySlice(list, a, b) ==
    LET n  == Len(list)
        na == IF a < 0 THEN Max(a + n, 0) ELSE Min(a, n)
        nb == IF b < 0 THEN Max(b + n, 0) ELSE Min(b, n)
    IN  SubSeq(list, na + 1, nb)

\* how many elements sorted() puts before element k (it is stable)
Rank(keys, k) ==
    Cardinality({ j \in 1..Len(keys) : keys[j] < keys[k] \/ (keys[j] = keys[k] /\ j < k) })

\* sorted(range(len(keys)), key=lambda k: keys[k])
ArgSort(keys) ==
    [r \in 1..Len(keys) |-> (CHOOSE k \in 1..Len(keys) : Rank(keys, k) = r - 1) - 1]

\* list.sort()
Sorted(keys) == [r \in 1..Len(keys) |-> keys[ArgSort(keys)[r] + 1]]

\* the bytes of b in pieces of w
Chunks(b, n, w) == [i \in 1..n |-> SubSeq(b, (i - 1) * w + 1, i * w)]

\* unpack('<n>I', b)
Words(b, n) == [i \in 1..n |-> U32(SubSeq(b, 4 * i - 3, 4 * i))]

----------------------------------------------------------------------------
(* The scan loop of _inspect_ptf and of MCRBin *)

\* the locals a scan of _inspect_ptf starts with
ScanLocals ==
    [ pos |-> 0, cntr |-> 0, HdrList |-> <<>>, BlkLenBef |-> <<>>, BlkLenAft |-> <<>>,
      DataPos |-> <<>>, bound |-> {}, probemTitle |-> <<>>, VarName |-> <<>>,
      VarNam |-> <<>>, VarPos |-> <<>>, VarUdm |-> <<>>, VarNum |-> <<>>,
      available_vars |-> <<>>, VarUdmFull |-> <<>>, VarSrchPos |-> <<>>,
      SwapPosVarSrch |-> <<>>, status |-> "run", err |-> "", errArg |-> <<>> ]

\* MCRBinLocals with DataPos kept from the scan before
MCRBinLocals_StaleIndex == [ScanLocals EXCEPT !.DataPos = sc.DataPos]

\* the locals a scan of MCRBin starts with
MCRBinLocals == ScanLocals

\* ptf.read(n) at position pos
Read(f, pos, n) == SubSeq(f, pos + 1, Min(pos + n, Len(f)))

\* an exception leaves the loop
Raise(s, e) == [s EXCEPT !.status = "err", !.err = e]

\* HdrList[cntr - k] is an IndexError when cntr - k < -len(HdrList)
HdrInRange(s, k) == k <= 2 * Len(s.HdrList)

\* HdrList[cntr - k]; a negative index counts from the end
HdrBack(s, k) ==
    LET i == s.cntr - k
    IN  IF i >= 0 THEN s.HdrList[i + 1] ELSE s.HdrList[Len(s.HdrList) + i + 1]

\* which branch of the if/elif chain takes a record of length L
Classify(s, L) ==
    IF L = 4 THEN "tag"
    ELSE IF ~HdrInRange(s, 1) THEN "IndexError"
    ELSE IF HdrBack(s, 1) = TITL THEN "title"
    ELSE IF HdrBack(s, 1) = KEY THEN "key1"
    ELSE IF ~HdrInRange(s, 2) THEN "IndexError"
    ELSE IF HdrBack(s, 2) = KEY THEN "key2"
    ELSE IF ~HdrInRange(s, 3) THEN "IndexError"
    ELSE IF HdrBack(s, 3) = KEY THEN "key3"
    ELSE IF ~HdrInRange(s, 4) THEN "IndexError"
    ELSE IF HdrBack(s, 4) = KEY THEN "key4"
    ELSE IF ~HdrInRange(s, 5) THEN "IndexError"
    ELSE IF HdrBack(s, 5) = KEY THEN "key5"
    ELSE IF HdrBack(s, 1) = TR THEN "data"
    ELSE "other"

\* itm_x_Var: VarPos[k+1] - VarPos[k] for every base name
ItemSpans(VarPos, n) == [k \in 1..n |-> VarPos[k + 1] - VarPos[k]]

\* VarNum_Cntr when base name i (from 1) is reached
SliceStart(spans, i) == Sum(SubSeq(spans, 1, i - 1))

\* the keys of Var_dict, in insertion order
RECURSIVE DictKeys(_)
DictKeys(VarNam) ==
    IF VarNam = <<>> THEN <<>>
    ELSE LET front == DictKeys(SubSeq(VarNam, 1, Len(VarNam) - 1))
             x     == VarNam[Len(VarNam)]
         IN  IF Contains(front, x) THEN front ELSE Append(front, x)

\* Var_dict[key]: the slice of VarNum assigned last under that key
DictValue(VarNam, VarNum, spans, key) ==
    LET i == CHOOSE i \in 1..Len(VarNam) :
                 VarNam[i] = key /\ \A j \in (i + 1)..Len(VarNam) : VarNam[j] # key
    IN  PySlice(VarNum, SliceStart(spans, i), SliceStart(spans, i) + spans[i])

\* the name of one catalog entry
EntryName(key, element) ==
    IF element = 0 THEN Strip(key) ELSE Strip(key) \o ItemSuffix(element)

\* available_vars before the fixed names are prepended
DictNames(VarNam, VarNum, spans) ==
    LET keys == DictKeys(VarNam)
    IN  Concat([q \in 1..Len(keys) |->
            LET v == DictValue(VarNam, VarNum, spans, keys[q])
            IN  [e \in 1..Len(v) |-> EntryName(keys[q], v[e])]])

\* VarUdmFull before the fixed units are prepended
SpanUnits(VarUdm, spans) ==
    Concat([i \in 1..Len(spans) |-> [k \in 1..Max(spans[i], 0) |-> Strip(VarUdm[i])]])

\* SwapPositions without the swap: the columns stay in catalog order
SwapPositions_Sorted(found) == [k \in 1..Len(found) |-> k - 1]

\* the two sorted(range(...)) calls: the output column of every fetched sample
SwapPositions(found) == ArgSort(ArgSort(found))

\* the names whose catalog positions the scan looks up
Lookups(available, search) ==
    IF search.mode = "inspect" THEN available ELSE search.vars

\* the tail of the fifth KEY record's branch: the catalog and the read plan
Catalog(s, search) ==
    IF "VarPos" \notin s.bound \/ "VarNam" \notin s.bound
    THEN Raise(s, "UnboundLocalError")
    ELSE
    LET VarPos == Append(s.VarPos, s.VarName[2] + 1)
        n      == Len(s.VarNam)
    IN
    IF Len(VarPos) < n + 1 THEN Raise(s, "IndexError")
    ELSE
    LET spans     == ItemSpans(VarPos, n)
        names     == DictNames(s.VarNam, s.VarNum, spans)
        available == FixedNames \o names
    IN
    IF \E i \in 1..n : spans[i] > 0 /\ "VarUdm" \notin s.bound
    THEN Raise(s, "UnboundLocalError")
    ELSE IF \E i \in 1..n : spans[i] > 0 /\ i > Len(s.VarUdm)
    THEN Raise(s, "IndexError")
    ELSE
    LET units  == FixedUnits \o SpanUnits(s.VarUdm, spans)
        wanted == Lookups(available, search)
        s1     == [s EXCEPT !.VarPos = VarPos, !.available_vars = available,
                            !.VarUdmFull = units, !.VarSrchPos = <<0>>,
                            !.bound = @ \cup {"available_vars", "VarUdmFull", "VarSrchPos"}]
    IN
    IF \E j \in 1..Len(wanted) : ~Contains(available, Strip(wanted[j]))
    THEN LET j == CHOOSE j \in 1..Len(wanted) :
                      /\ ~Contains(available, Strip(wanted[j]))
                      /\ \A h \in 1..(j - 1) : Contains(available, Strip(wanted[h]))
         IN  [Raise(s1, "ValueError") EXCEPT !.errArg = Strip(wanted[j])]
    ELSE
    LET found == <<0>> \o [j \in 1..Len(wanted) |-> IndexOf(available, Strip(wanted[j]))]
    IN
    IF \E j \in 1..Len(found) : found[j] >= Len(units)
    THEN Raise([s1 EXCEPT !.VarSrchPos = found], "IndexError")
    ELSE [s1 EXCEPT !.VarUdmFull = [j \in 1..Len(found) |-> units[found[j] + 1]],
                    !.SwapPosVarSrch = SwapPositions(found),
                    !.VarSrchPos = Append(Sorted(found), s.VarName[2] + 4),
                    !.bound = @ \cup {"SwapPosVarSrch"},
                    !.HdrList = Append(@, <<>>)]

\* HdrList.append([]) after a record's branch
Skipped(s) == [s EXCEPT !.HdrList = Append(@, <<>>)]

\* the branch of a record of length L, entered with the prefix read
Payload(f, s, L, search) ==
    LET kind == Classify(s, L)
        g    == s.VarName[1]
        t    == s.VarName[2]
        b    == Read(f, s.pos, IF kind = "tag" THEN 4 ELSE IF kind = "key1" THEN 8 ELSE L)
        s1   == [s EXCEPT !.pos = @ + Len(b)]
    IN
    CASE kind = "IndexError" -> Raise(s, "IndexError")
      [] kind = "tag" ->
            IF Len(b) # 4 THEN Raise(s1, "struct.error")
            ELSE IF ~Utf8Ok(b) THEN Raise(s1, "UnicodeDecodeError")
            ELSE [s1 EXCEPT !.HdrList = Append(@, b)]
      [] kind = "title" ->
            IF Len(b) # L THEN Raise(s1, "struct.error")
            ELSE IF ~Utf8Ok(b) THEN Raise(s1, "UnicodeDecodeError")
            ELSE Skipped([s1 EXCEPT !.probemTitle = b, !.bound = @ \cup {"probemTitle"}])
      [] kind = "key1" ->
            IF Len(b) # 8 THEN Raise(s1, "struct.error")
            ELSE Skipped([s1 EXCEPT !.VarName = Words(b, 2), !.bound = @ \cup {"VarName"}])
      [] kind \in {"key2", "key3", "key4", "key5"} /\ "VarName" \notin s.bound ->
            Raise(s, "UnboundLocalError")
      [] kind = "key2" /\ "VarName" \in s.bound ->
            IF g = 0 THEN Raise(s, "ZeroDivisionError")
            ELSE IF Len(b) # (L \div g) * g THEN Raise(s1, "struct.error")
            ELSE IF ~Utf8Ok(b) THEN Raise(s1, "UnicodeDecodeError")
            ELSE Skipped([s1 EXCEPT !.VarNam = Chunks(b, g, L \div g),
                                    !.bound = @ \cup {"VarNam"}])
      [] kind = "key3" /\ "VarName" \in s.bound ->
            IF Len(b) # 4 * g THEN Raise(s1, "struct.error")
            ELSE Skipped([s1 EXCEPT !.VarPos = Words(b, g), !.bound = @ \cup {"VarPos"}])
      [] kind = "key4" /\ "VarName" \in s.bound ->
            IF Len(b) # 16 * g THEN Raise(s1, "struct.error")
            ELSE IF ~Utf8Ok(b) THEN Raise(s1, "UnicodeDecodeError")
            ELSE Skipped([s1 EXCEPT !.VarUdm = Chunks(b, g, 16), !.bound = @ \cup {"VarUdm"}])
      [] kind = "key5" /\ "VarName" \in s.bound ->
            IF Len(b) # 4 * t THEN Raise(s1, "struct.error")
            ELSE Catalog([s1 EXCEPT !.VarNum = Words(b, t), !.bound = @ \cup {"VarNum"}],
                         search)
      [] kind = "data" ->
            Skipped([s EXCEPT !.DataPos = Append(@, s.pos), !.pos = @ + L])
      [] kind = "other" -> Skipped(s)

\* BlkLenAft.append(...) and cntr += 1, which end an iteration
Trailer(f, s) ==
    LET b == Read(f, s.pos, 4)
    IN  IF Len(b) # 4 THEN Raise([s EXCEPT !.pos = @ + Len(b)], "struct.error")
        ELSE [s EXCEPT !.pos = @ + 4, !.BlkLenAft = Append(@, U32(b)), !.cntr = @ + 1]

\* one iteration of the while loop
ScanStep(f, s, search) ==
    LET pre == Read(f, s.pos, 4)
    IN  IF pre = <<>> THEN [s EXCEPT !.status = "eof"]
        ELSE IF Len(pre) # 4 THEN Raise([s EXCEPT !.pos = @ + Len(pre)], "struct.error")
        ELSE LET L  == U32(pre)
                 s1 == Payload(f, [s EXCEPT !.pos = @ + 4, !.BlkLenBef = Append(@, L)],
                               L, search)
             IN  IF s1.status # "run" THEN s1 ELSE Trailer(f, s1)

----------------------------------------------------------------------------
(* The second pass of MCRBin: the samples of every data block *)

\* a cell of np.empty(...) * np.nan that is never assigned
NaN == [sign |-> 0, exp |-> 255, man |-> 4194304]

\* the inner loop over the read plan V from entry j on, the file position at p
RECURSIVE ReadRow(_, _, _, _)

\* ReadRow seeking (V[j+1] - V[j]) * 4, as if the read had not moved the position
ReadRow_NoRewind(f, V, p, j) ==
    IF j > Len(V) - 1 THEN [err |-> "", vals |-> <<>>]
    ELSE LET b    == Read(f, p, 4)
             next == p + Len(b) + (V[j + 1] - V[j]) * 4
         IN  IF Len(b) # 4 THEN [err |-> "struct.error", vals |-> <<>>]
             ELSE LET rest == ReadRow(f, V, next, j + 1)
                  IN  [err |-> rest.err, vals |-> <<F32(b)>> \o rest.vals]

ReadRow(f, V, p, j) ==
    IF j > Len(V) - 1 THEN [err |-> "", vals |-> <<>>]
    ELSE LET b    == Read(f, p, 4)
             next == p + Len(b) + ((V[j + 1] - V[j]) * 4 - 4)
         IN  IF Len(b) # 4 THEN [err |-> "struct.error", vals |-> <<>>]
             ELSE IF next < 0 THEN [err |-> "OSError", vals |-> <<>>]
             ELSE LET rest == ReadRow(f, V, next, j + 1)
                  IN  [err |-> rest.err, vals |-> <<F32(b)>> \o rest.vals]

\* what a call leaves behind
NoCall ==
    [ state |-> "none", req |-> <<>>, err |-> "", errNames |-> {},
      time |-> <<>>, values |-> <<>>, cols |-> 0, units |-> <<>> ]

Raised(req, e, names) ==
    [NoCall EXCEPT !.state = "raised", !.req = req, !.err = e, !.errNames = names]

\* MCRBin from the end of its scan loop to its return
ReadPass(f, s, req) ==
    LET ncols == Len(req) + 1
    IN
    IF s.status = "err"
    THEN Raised(req, s.err, IF s.err = "ValueError" THEN {s.errArg} ELSE {})
    ELSE IF s.DataPos # <<>> /\ "VarSrchPos" \notin s.bound
    THEN Raised(req, "UnboundLocalError", {})
    ELSE
    LET rows == [i \in 1..Len(s.DataPos) |-> ReadRow(f, s.VarSrchPos, s.DataPos[i], 1)]
    IN
    IF \E i \in 1..Len(rows) : rows[i].err # ""
    THEN Raised(req,
                rows[CHOOSE i \in 1..Len(rows) :
                        rows[i].err # "" /\ \A h \in 1..(i - 1) : rows[h].err = ""].err,
                {})
    ELSE IF s.DataPos # <<>> /\ Len(s.VarSrchPos) - 1 > ncols
    THEN Raised(req, "IndexError", {})
    ELSE IF "SwapPosVarSrch" \notin s.bound
    THEN Raised(req, "UnboundLocalError", {})
    ELSE IF \E k \in 1..Len(s.SwapPosVarSrch) : s.SwapPosVarSrch[k] >= ncols
    THEN Raised(req, "IndexError", {})
    ELSE
    LET data == [i \in 1..Len(rows) |->
                    [j \in 1..ncols |->
                        IF j <= Len(rows[i].vals) THEN rows[i].vals[j] ELSE NaN]]
        swapped == [i \in 1..Len(data) |->
                    [k \in 1..Len(s.SwapPosVarSrch) |-> data[i][s.SwapPosVarSrch[k] + 1]]]
    IN  [NoCall EXCEPT !.state = "ok", !.req = req,
                       !.time = [i \in 1..Len(swapped) |-> swapped[i][1]],
                       !.values = [i \in 1..Len(swapped) |-> Tail(swapped[i])],
                       !.cols = Len(s.SwapPosVarSrch) - 1,
                       !.units = Tail(s.VarUdmFull)]

----------------------------------------------------------------------------
(* The handle and its calls *)

TIME   == FixedNames[1]
FOO_1  == FOO \o ItemSuffix(1)
FOO_2  == FOO \o ItemSuffix(2)
NOPE   == Str(<<"N", "O", "P", "E">>)
ZIP    == Str(<<"Z", "I", "P">>)

\* the names most calls ask for
NamePool == {TIME, FOO_1, FOO_2}

\* requests with names that are absent, or present only once trimmed
OddRequests ==
    { <<NOPE>>, <<ZIP, NOPE>>, <<Pad(FOO_2, 6)>> }

Requests == UNION { [1..n -> NamePool] : n \in 0..MaxReqLen } \cup OddRequests

Range(list) == { list[i] : i \in 1..Len(list) }

\* no call is running
NoRequest == <<>>

Init ==
    /\ inp \in Inputs
    /\ file = FileOf(inp)
    /\ pc = "inspect"
    /\ sc = ScanLocals
    /\ openErr = ""
    /\ title = <<>>
    /\ columns = <<>>
    /\ call = NoRequest
    /\ last = NoCall
    /\ prev = NoCall

\* _inspect_ptf: one iteration of its loop
InspectRecord ==
    /\ pc = "inspect"
    /\ sc.status = "run"
    /\ sc' = ScanStep(file, sc, [mode |-> "inspect", vars |-> <<>>])
    /\ UNCHANGED <<file, inp, pc, openErr, title, columns, call, last, prev>>

\* _inspect_ptf returns, and __init__ with it
InspectReturn ==
    /\ pc = "inspect"
    /\ sc.status # "run"
    /\ IF sc.status = "eof" /\ {"available_vars", "probemTitle"} \subseteq sc.bound
       THEN /\ pc' = "idle"
            /\ title' = Strip(sc.probemTitle)
            /\ columns' = sc.available_vars
            /\ openErr' = ""
       ELSE /\ pc' = "failed"
            /\ openErr' = IF sc.status = "err" THEN sc.err ELSE "UnboundLocalError"
            /\ UNCHANGED <<title, columns>>
    /\ UNCHANGED <<file, inp, sc, call, last, prev>>

\* to_dataframe(variables) up to its call of MCRBin
ToDataframe(variables) ==
    /\ pc = "idle"
    /\ IF Range(variables) \subseteq Range(columns)
       THEN /\ pc' = "mcrbin"
            /\ sc' = MCRBinLocals
            /\ call' = variables
            /\ last' = NoCall
       ELSE /\ last' = Raised(variables, "KeyError", Range(variables) \ Range(columns))
            /\ UNCHANGED <<pc, sc, call>>
    /\ UNCHANGED <<file, inp, openErr, title, columns, prev>>

\* MCRBin(vars_to_search) called on the handle directly
MCRBinCall(vars_to_search) ==
    /\ pc = "idle"
    /\ pc' = "mcrbin"
    /\ sc' = MCRBinLocals
    /\ call' = vars_to_search
    /\ last' = NoCall
    /\ UNCHANGED <<file, inp, openErr, title, columns, prev>>

\* MCRBin: one iteration of its loop
MCRBinRecord ==
    /\ pc = "mcrbin"
    /\ sc.status = "run"
    /\ sc' = ScanStep(file, sc, [mode |-> "mcrbin", vars |-> call])
    /\ UNCHANGED <<file, inp, pc, openErr, title, columns, call, last, prev>>

\* MCRBinReturn keeping the title of its own scan on the handle
MCRBinReturn_KeepsTitle ==
    /\ pc = "mcrbin"
    /\ sc.status # "run"
    /\ last' = ReadPass(file, sc, call)
    /\ pc' = "idle"
    /\ call' = NoRequest
    /\ title' = sc.probemTitle
    /\ UNCHANGED <<file, inp, sc, openErr, columns, prev>>

\* MCRBin: the second pass and the return, or the exception
MCRBinReturn ==
    /\ pc = "mcrbin"
    /\ sc.status # "run"
    /\ last' = ReadPass(file, sc, call)
    /\ pc' = "idle"
    /\ call' = NoRequest
    /\ UNCHANGED <<file, inp, sc, openErr, title, columns, prev>>

\* the whole loop of _inspect_ptf on a file, from the locals s
RECURSIVE Scan(_, _)
Scan(f, s) ==
    IF s.status # "run" THEN s
    ELSE Scan(f, ScanStep(f, s, [mode |-> "inspect", vars |-> <<>>]))

\* the history keeps the latest call's outcome for later comparison
Remember ==
    /\ pc = "idle"
    /\ inp.hist
    /\ last.state # "none"
    /\ prev' = last
    /\ UNCHANGED <<file, inp, pc, sc, openErr, title, columns, call, last>>

Next ==
    \/ InspectRecord
    \/ InspectReturn
    \/ \E r \in Requests : ToDataframe(r)
    \/ \E r \in Requests : MCRBinCall(r)
    \/ MCRBinRecord
    \/ MCRBinReturn
    \/ Remember

Spec == Init /\ [][Next]_vars

----------------------------------------------------------------------------
(* Claims *)

\* the file of the input is a whole file of the given layout
IsWhole(layout) == inp.layout = layout /\ inp.cut = Len(Whole(layout, inp.key, inp.steps))

\* the open has ended, one way or the other
OpenEnded == pc # "inspect"

\* the name of item v of base name b
Item(b, v) == b \o ItemSuffix(v)

\* C1: the round-trip file (one KEY group: group_count 1, three items of FOO)
\* opens with the catalog TIME, CPU, DT, UNKN03, FOO_1, FOO_2, FOO_3 and
\* extracting FOO_2 gives [[2.0], [5.0]]; and in general a KEY group one of
\* whose records is 4 bytes long (the position table when group_count = 1,
\* the item numbers when total_item_count = 1) is still consumed as a unit,
\* so that the file opens.
C1_KeyGroupConsumedAsUnit ==
    /\ (IsWhole("plain") /\ inp.key \in {"round", "one"} /\ OpenEnded) =>
            /\ pc # "failed"
            /\ Len(columns) = 4 + Len(Keys[inp.key].items)
    /\ (IsWhole("plain") /\ inp.key = "round" /\ inp.steps = 2 /\ OpenEnded) =>
            /\ columns = FixedNames \o <<Item(FOO, 1), Item(FOO, 2), Item(FOO, 3)>>
            /\ (last.state # "none" /\ last.req = <<FOO_2>>) =>
                    /\ last.state = "ok"
                    /\ last.values = << <<FloatOf(2)>>, <<FloatOf(5)>> >>

\* the sample at byte offset at of the file
SampleAt(at) == F32(SubSeq(file, at + 1, at + 4))

\* C2: a call that returns gives one row per data block and one column per
\* requested name (repeated names and TIME included); the value in row s,
\* column j is the sample at block_offset[s] + 4*i, i the position in
\* variable_names() of the j-th requested name, and time_axis[s] is the
\* sample at block_offset[s].
C2_ValuesAreTheStoredSamples ==
    (pc = "idle" /\ last.state = "ok") =>
        /\ Len(last.values) = Len(sc.DataPos)
        /\ Len(last.time) = Len(sc.DataPos)
        /\ IsWhole(inp.layout) => Len(last.values) = inp.steps
        /\ \A s \in 1..Len(sc.DataPos) :
            /\ last.time[s] = SampleAt(sc.DataPos[s])
            /\ Len(last.values[s]) = Len(last.req)
            /\ \A j \in 1..Len(last.req) :
                 last.values[s][j] =
                    SampleAt(sc.DataPos[s] + 4 * IndexOf(columns, Strip(last.req[j])))

\* C2 witness: a call with a repeated name and TIME has returned two rows
C2_Witness ==
    /\ pc = "idle" /\ last.state = "ok"
    /\ last.req \in {<<FOO_2, FOO_2>>, <<FOO_2, TIME>>}
    /\ Len(last.values) >= 2
    /\ last.values[1] # last.values[2]

\* C3: an opened file has 4 + total_item_count names, the first four being
\* TIME, CPU, DT, UNKN03 (files with one KEY group).
C3_CatalogLength ==
    (pc = "idle" /\ inp.layout \in {"plain", "special"}) =>
        /\ Len(columns) = 4 + Len(Keys[inp.key].items)
        /\ SubSeq(columns, 1, 4) = FixedNames

\* the names of a request that no catalog entry matches once trimmed
Absent(req) == { Strip(req[j]) : j \in { j \in 1..Len(req) : ~Contains(columns, Strip(req[j])) } }

\* C4: for two names a and b, the value columns of extract([b, a]) are those
\* of extract([a, b]) reversed, and the time axis is the same.
C4_OrderPreserved ==
    ( /\ prev.state = "ok" /\ last.state = "ok"
      /\ Len(prev.req) = 2
      /\ last.req = <<prev.req[2], prev.req[1]>> ) =>
        /\ last.time = prev.time
        /\ Len(last.values) = Len(prev.values)
        /\ \A s \in 1..Len(prev.values) :
              last.values[s] = <<prev.values[s][2], prev.values[s][1]>>

\* C4 witness: FOO_1, FOO_2 and then FOO_2, FOO_1 were extracted, their
\* samples differing
C4_Witness ==
    /\ prev.state = "ok" /\ last.state = "ok"
    /\ prev.req = <<FOO_1, FOO_2>> /\ last.req = <<FOO_2, FOO_1>>
    /\ Len(last.values) >= 1
    /\ last.values[1][1] # last.values[1][2]

\* the errors that report names missing from the catalog
LookupErrors == {"KeyError", "ValueError"}

\* C5: a call asking for names that are absent from the catalog (once
\* trimmed) fails with a lookup error naming exactly the absent names, all
\* of them, and a name that matches once trimmed is never reported.
C5_AllAbsentNamesReported ==
    last.state # "none" =>
        /\ Absent(last.req) # {} => (last.state = "raised" /\ last.err \in LookupErrors)
        /\ (last.state = "raised" /\ last.err \in LookupErrors) =>
              { Strip(n) : n \in last.errNames } = Absent(last.req)

\* C6: a KEY group whose item spans do not sum to total_item_count is
\* rejected: the file does not open.
C6_ItemCountMismatchIsFatal ==
    (pc = "idle" /\ inp.layout \in {"plain", "special"}) =>
        LET k == Keys[inp.key]
        IN  Sum(ItemSpans(Append(k.pos, Len(k.items) + 1), Len(k.names))) = Len(k.items)

\* C7: a file with a second KEY group does not open.
C7_SecondKeyGroupIsFatal == ~(IsWhole("twokey") /\ pc = "idle")

\* the error of a read that comes back short
TruncatedRecord == "struct.error"

\* C8: opening the empty file fails, with the error of a truncated record.
C8_EmptyFileIsTruncated ==
    (file = <<>> /\ OpenEnded) => (pc = "failed" /\ openErr = TruncatedRecord)

\* C9: the scan ends normally only on an empty read at a record boundary:
\* a file cut anywhere inside a record does not open.
C9_CutFileDoesNotOpen ==
    /\ (pc = "inspect" /\ sc.status = "eof") => sc.pos = Len(file)
    /\ pc = "idle" =>
          inp.cut \in Boundaries(Whole(inp.layout, inp.key, inp.steps), 0)

\* C10: two extract calls with the same names on the same handle, whatever
\* calls lie between them, return the same time axis, values and units.
C10_Idempotent ==
    (prev.state = "ok" /\ last.state = "ok" /\ prev.req = last.req) =>
        /\ last.time = prev.time
        /\ last.values = prev.values
        /\ last.units = prev.units

\* C10 witness: the same two names were extracted twice, with rows returned
C10_Witness ==
    /\ prev.state = "ok" /\ last.state = "ok"
    /\ prev.req = <<FOO_2, TIME>> /\ last.req = prev.req
    /\ Len(last.values) >= 2

\* the KEY group from which the catalog of an opened file is built
LastKey == IF inp.layout = "twokey" THEN Keys.alt ELSE Keys[inp.key]

\* item_span of every group of a KEY group: the differences of its position
\* table extended by the sentinel total_item_count + 1
GroupSpans(k) == ItemSpans(Append(k.pos, Len(k.items) + 1), Len(k.names))

\* the slice of the item numbers that belongs to group g
GroupItems(k, g) ==
    LET a == SliceStart(GroupSpans(k), g)
    IN  SubSeq(k.items, a + 1, a + GroupSpans(k)[g])

\* the names of the catalog entries group g gives
GroupNames(k, g) ==
    { EntryName(k.names[g], GroupItems(k, g)[e]) : e \in 1..Len(GroupItems(k, g)) }

\* C11: in an opened file every base-variable group g has item_span[g]
\* catalog entries derived from it, also when two groups carry the same
\* base name.
C11_EntriesPerGroup ==
    pc = "idle" =>
        \A g \in 1..Len(LastKey.names) :
            Cardinality({ i \in 5..Len(columns) : columns[i] \in GroupNames(LastKey, g) })
                = GroupSpans(LastKey)[g]

\* the layouts with a record that has no meaning to the scan
MeaninglessRecords == {"special", "shadow", "lead"}

\* C12: between two records the read position of a scan is at a record
\* boundary of the file (record_start + 4 + length + 4 of the record just
\* processed), and a record without meaning is skipped without an error.
C12_Framing ==
    /\ (pc \in {"inspect", "mcrbin"} /\ sc.status = "run") =>
            sc.pos \in Boundaries(Whole(inp.layout, inp.key, inp.steps), 0)
    /\ (pc = "inspect" /\ inp.layout \in MeaninglessRecords /\ IsWhole(inp.layout)) =>
            sc.status # "err"

\* the length prefix of the record whose payload begins at offset at
BlockLength(at) == U32(SubSeq(file, at - 3, at))

\* C13: an extraction that returns has read every sample (the time and each
\* requested name's) inside the payload of its timestep's data block; a
\* block too short for a requested index makes the call fail.
C13_SamplesInsideBlock ==
    (pc = "idle" /\ last.state = "ok") =>
        \A s \in 1..Len(sc.DataPos) :
            /\ 4 <= BlockLength(sc.DataPos[s])
            /\ \A j \in 1..Len(last.req) :
                 4 * (IndexOf(columns, Strip(last.req[j])) + 1) <= BlockLength(sc.DataPos[s])

\* the payload offsets of the records that directly follow a ".TR/" tag, by
\* the framing of the file alone
RECURSIVE DataBlocks(_, _, _)
DataBlocks(f, at, afterTR) ==
    IF at + 4 > Len(f) THEN <<>>
    ELSE LET L       == U32(SubSeq(f, at + 1, at + 4))
             payload == SubSeq(f, at + 5, Min(at + 4 + L, Len(f)))
         IN  (IF afterTR THEN <<at + 4>> ELSE <<>>)
             \o DataBlocks(f, at + 8 + L, ~afterTR /\ payload = TR)

\* C14: a scan that ends normally has indexed exactly the records that
\* directly follow a ".TR/" tag, in file order, by the offset of their first
\* payload byte; an extraction returns one row for each of them.
C14_IndexIsTheDataBlocks ==
    /\ sc.status = "eof" => sc.DataPos = DataBlocks(file, 0, FALSE)
    /\ (pc = "idle" /\ last.state = "ok") =>
            Len(last.values) = Len(DataBlocks(file, 0, FALSE))

\* the unit of the group a catalog name is derived from
UnitOf(k, name) ==
    IF \E i \in 1..Len(FixedNames) : FixedNames[i] = name
    THEN FixedUnits[CHOOSE i \in 1..Len(FixedNames) : FixedNames[i] = name]
    ELSE Strip(k.units[CHOOSE g \in 1..Len(k.names) : name \in GroupNames(k, g)])

\* C15: the unit an extraction returns at position j is the trimmed unit of
\* the group the j-th requested name is derived from ("sec" for TIME, ""
\* for CPU, DT, UNKN03), also when two groups carry the same base name.
C15_UnitsAligned ==
    (pc = "idle" /\ last.state = "ok") =>
        /\ Len(last.units) = Len(last.req)
        /\ \A j \in 1..Len(last.req) :
              last.units[j] = UnitOf(LastKey, Strip(last.req[j]))

\* the latest call ran the scan of MCRBin
ScanRan == last.state = "ok" \/ (last.state = "raised" /\ last.err # "KeyError")

\* C16: the scan of MCRBin, asked for names of the catalog, ends as the scan
\* of _inspect_ptf does on the same file: no error, the same record classes
\* and lengths, the same data-block index, variable list and title.
C16_ScansAgree ==
    (pc = "idle" /\ ScanRan /\ Absent(last.req) = {}) =>
        LET i == Scan(file, ScanLocals)
        IN  /\ sc.status = i.status
            /\ sc.HdrList = i.HdrList
            /\ sc.BlkLenBef = i.BlkLenBef
            /\ sc.DataPos = i.DataPos
            /\ sc.available_vars = columns
            /\ Strip(sc.probemTitle) = title

\* C17: once the file is open, no step of any call changes title() or
\* variable_names().
C17_HandleUnchanged ==
    [][pc # "inspect" => (title' = title /\ columns' = columns)]_vars

\* C17 witness: a failed call and then a successful one have ended on an
\* opened file
C17_Witness ==
    /\ pc = "idle"
    /\ prev.state = "raised" /\ last.state = "ok"
    /\ title = Strip(RunTitle) /\ title # RunTitle
    /\ Len(columns) = 4 + Len(Keys[inp.key].items)

\* C18: a file with a title, one KEY group and no data block opens with a
\* catalog, and extracting names of the catalog returns no row: an empty
\* time axis and a values matrix of 0 rows and len(requested_names) columns.
C18_ZeroBlocks ==
    (IsWhole("plain") /\ inp.steps = 0 /\ OpenEnded) =>
        /\ pc # "failed"
        /\ SubSeq(columns, 1, 4) = FixedNames
        /\ (ScanRan /\ Range(last.req) \subseteq Range(columns)) =>
              /\ last.state = "ok"
              /\ last.time = <<>>
              /\ last.values = <<>>
              /\ last.cols = Len(last.req)
              /\ Len(last.units) = Len(last.req)

====
